---- MODULE Spec2Model ----
(***************************************************************************)
(* A model of sunpy/coordinates/utilities.py: the module-level calibration *)
(* of the first Carrington rotation and the six public functions           *)
(* get_earth, get_sun_B0, get_sun_L0, get_sun_P, get_sunearth_distance and *)
(* get_sun_orientation, together with the helper _sun_north_angle_to_z.    *)
(*                                                                         *)
(* Angles are exact integers counted in units of 1/UnitsPerDeg degree, the *)
(* unit in which one day of sidereal rotation (360/25.38 degrees) is a     *)
(* whole number.  Times are Julian dates in whole days counted from a      *)
(* model origin one DayStep before the first Carrington rotation.          *)
(* Vectors are integer triples; a vector divided by a norm is kept as the  *)
(* integer triple together with the square of the divisor.                 *)
(***************************************************************************)
EXTENDS Integers, Sequences, FiniteSets, TLC

VARIABLES
    pc,                  \* "import" while the module body has not run, then "ready"
    ephem,               \* the ephemeris: the sky the collaborators report, per instant
    clock,               \* the instant the 'now' sentinel resolves to
    time_first_rotation, \* module global _time_first_rotation
    lon_first_rotation,  \* module global _lon_first_rotation
    last,                \* the latest public call: function, arguments, outcome
    prev,                \* the first public call made after import (history)
    geom,                \* the vectors handed to the signed-angle computation
    angle                \* the angle it returned for them

vars == <<pc, ephem, clock, time_first_rotation, lon_first_rotation, last, prev,
          geom, angle>>

---------------------------------------------------------------------------
(* Bounds of the model *)

\* Instants are 0, DayStep, 2*DayStep, ..., MaxJD*DayStep.
MaxJD == 4

\* Days between two consecutive instants of the model.
DayStep == 30

\* Vector components range over -MaxCoord..MaxCoord.
MaxCoord == 1

---------------------------------------------------------------------------
(* Units *)

\* Angle units per degree: 42300 / 2538 * 360 = 6000 units per day exactly.
UnitsPerDeg == 423

\* 360 degrees in angle units.
Full == 360 * UnitsPerDeg

JDs == {j * DayStep : j \in 0..MaxJD}

\* The ephemeris covers every instant but the last one.
EphemJDs == {j * DayStep : j \in 0..(MaxJD - 1)}

\* Julian date of Time('1853-11-09 21:36') in the model's day count.
EpochJD == 1 * DayStep

EPOCH_STRING == "1853-11-09 21:36"

TimeStrings == {EPOCH_STRING, "now", "not a date"}

Locations == {"L1", "L2"}

---------------------------------------------------------------------------
(* What the ephemeris and frame library can report for one instant.        *)
(* rawlon, lat, radius: the Earth in HeliographicStonyhurst as transformed  *)
(* from the barycentric position; helio: the longitude of the Earth in      *)
(* de-tilted HCRS; sky/north: Sun centre and the solar north direction in   *)
(* the PrecessedGeocentric frame (geo) and in each AltAz frame (alt).       *)

SampleA ==
    [rawlon |-> 5, lat |-> 3000, radius |-> 147, helio |-> 47000,
     geoSky |-> <<1, 1, 0>>, geoNorth |-> <<0, 1, 1>>,
     altSky |-> [l \in Locations |-> IF l = "L1" THEN <<1, 0, 1>> ELSE <<0, 1, -1>>],
     altNorth |-> [l \in Locations |-> IF l = "L1" THEN <<0, 1, 0>> ELSE <<1, 0, 1>>]]

\* In SampleB the Sun stands at the zenith of location L1.
SampleB ==
    [rawlon |-> Full - 3, lat |-> -2000, radius |-> 152, helio |-> 120000,
     geoSky |-> <<-1, 0, 1>>, geoNorth |-> <<0, 0, 1>>,
     altSky |-> [l \in Locations |-> IF l = "L1" THEN <<0, 0, 1>> ELSE <<1, 0, -1>>],
     altNorth |-> [l \in Locations |-> IF l = "L1" THEN <<1, 0, 0>> ELSE <<0, 1, 0>>]]

Samples == {SampleA, SampleB}

---------------------------------------------------------------------------
(* Values *)

TimeObj(j) == [kind |-> "Time", jd |-> j, str |-> ""]
TimeStr(s) == [kind |-> "str", jd |-> -1, str |-> s]

TimeArgs == {TimeObj(j) : j \in JDs} \cup {TimeStr(s) : s \in TimeStrings}

\* The value of a module global the module body has not assigned yet.
Unset == 0 - 1
NoVal == [none |-> TRUE]

\* The module namespace as a call sees and leaves it.
Globals == [time_first_rotation |-> time_first_rotation,
            lon_first_rotation |-> lon_first_rotation]

\* A call's outcome: a returned value or a raised exception, the collaborators
\* invoked on the way, and the module namespace the call leaves behind.
Ret(v, log, g) == [tag |-> "ok", val |-> v, exc |-> "", log |-> log, g |-> g]
Raise(e, log, g) == [tag |-> "raise", val |-> NoVal, exc |-> e, log |-> log, g |-> g]

---------------------------------------------------------------------------
(* Collaborators *)

\* astropy Longitude: an angle wrapped into [0, 360) degrees.
Longitude(x) == x % Full

\* astropy Angle: the value as it is, without wrapping.
Angle(x) == x

\* sunpy.time.parse_time: a date string becomes its instant, the 'now'
\* sentinel becomes the current time, anything else raises ValueError.
parse_time(s, g) ==
    IF s = "now" THEN Ret(clock, <<"parse_time">>, g)
    ELSE IF s = EPOCH_STRING THEN Ret(EpochJD, <<"parse_time">>, g)
    ELSE Raise("ValueError", <<"parse_time">>, g)

\* get_body_barycentric('earth', obstime) and the transformation of the
\* result into HeliographicStonyhurst; both need the ephemeris at obstime.
earth_icrs_to_HGS(obstime, g) ==
    IF obstime.jd \notin DOMAIN ephem
    THEN Raise("EphemerisError", <<"get_body_barycentric">>, g)
    ELSE Ret([lon |-> ephem[obstime.jd].rawlon, lat |-> ephem[obstime.jd].lat,
              radius |-> ephem[obstime.jd].radius, obstime |-> obstime.jd],
             <<"get_body_barycentric", "transform_to">>, g)

SkyCoord(lon, lat, radius, obstime) ==
    [lon |-> lon, lat |-> lat, radius |-> radius, obstime |-> obstime]

\* coord.hcrs.cartesian.transform(_sun_detilt_matrix)
\*      .represent_as(SphericalRepresentation).lon.to('deg'):
\* the Stonyhurst meridian of coord.obstime points at the Earth, whose
\* longitude in de-tilted HCRS the ephemeris gives.
hcrs_detilt_lon(coord) == (ephem[coord.obstime].helio + coord.lon) % Full

VecAdd(a, b) == <<a[1] + b[1], a[2] + b[2], a[3] + b[3]>>

\* point.transform_to(frame).data.to_cartesian() for the two points the
\* signed-angle helper builds: the Sun centre and the point on the solar
\* north axis.
transform_to(point, frame, g) ==
    IF frame.obstime \notin DOMAIN ephem
    THEN Raise("EphemerisError", <<"transform_to">>, g)
    ELSE LET smp == ephem[frame.obstime]
             sky == IF frame.kind = "AltAz" THEN smp.altSky[frame.location]
                    ELSE smp.geoSky
             dir == IF frame.kind = "AltAz" THEN smp.altNorth[frame.location]
                    ELSE smp.geoNorth
         IN Ret(IF point = "sun_center" THEN sky ELSE VecAdd(sky, dir),
                <<"transform_to">>, g)

---------------------------------------------------------------------------
(* Vector algebra of CartesianRepresentation.  A vector is [v, n2, nan]:   *)
(* the triple v divided by the square root of n2, or NaN components.       *)

Dot3(a, b) == a[1] * b[1] + a[2] * b[2] + a[3] * b[3]

Cross3(a, b) == <<a[2] * b[3] - a[3] * b[2],
                  a[3] * b[1] - a[1] * b[3],
                  a[1] * b[2] - a[2] * b[1]>>

CartesianRepresentation(x, y, z) == [v |-> <<x, y, z>>, n2 |-> 1, nan |-> FALSE]

Cross(a, b) == [v |-> Cross3(a.v, b.v), n2 |-> a.n2 * b.n2, nan |-> a.nan \/ b.nan]

\* A scalar is [num, d2, nan]: num divided by the square root of d2.
Dot(a, b) == [num |-> Dot3(a.v, b.v), d2 |-> a.n2 * b.n2, nan |-> a.nan \/ b.nan]

\* a /= a.norm(): dividing by a zero norm leaves NaN components.
Normalized(a) ==
    IF a.nan \/ Dot3(a.v, a.v) = 0
    THEN [v |-> a.v, n2 |-> 1, nan |-> TRUE]
    ELSE [v |-> a.v, n2 |-> a.n2 * Dot3(a.v, a.v), nan |-> FALSE]

RECURSIVE GCD(_, _)
GCD(a, b) == IF b = 0 THEN a ELSE GCD(b, a % b)

Sgn(x) == IF x > 0 THEN 1 ELSE IF x < 0 THEN -1 ELSE 0

NaNAngle == [nan |-> TRUE, sy |-> 0, sx |-> 0, ry |-> 0, rx |-> 0]

\* The angle whose sine and cosine have the signs sy and sx and whose
\* squared tangent is ry / rx in lowest terms.
AngleOf(sy, sx, y2, x2) ==
    IF y2 = 0 /\ x2 = 0
    THEN [nan |-> FALSE, sy |-> 0, sx |-> 1, ry |-> 0, rx |-> 1]
    ELSE [nan |-> FALSE, sy |-> sy, sx |-> sx,
          ry |-> y2 \div GCD(y2, x2), rx |-> x2 \div GCD(y2, x2)]

\* np.arctan2(sin_theta, cos_theta).to('deg')
arctan2(sin_theta, cos_theta) ==
    IF sin_theta.nan \/ cos_theta.nan THEN NaNAngle
    ELSE AngleOf(Sgn(sin_theta.num), Sgn(cos_theta.num),
                 sin_theta.num * sin_theta.num * cos_theta.d2,
                 cos_theta.num * cos_theta.num * sin_theta.d2)

---------------------------------------------------------------------------
(* The module's functions.  Each takes the module namespace g it runs in   *)
(* and yields an outcome; an exception raised by a callee is the outcome   *)
(* of the caller, as no function of the module has an except clause.       *)

\* Hundredths of a day in one sidereal rotation of exactly 25.38 days.
SiderealPeriodCentidays == 2538

\* astropy_time with the string never read: every string is taken as 'now'.
astropy_time_reads_clock(time, g) ==
    IF time.kind = "Time" THEN Ret(time, <<>>, g)
    ELSE Ret(TimeObj(clock), <<"parse_time">>, g)

\* _astropy_time(time)
astropy_time(time, g) ==
    IF time.kind = "Time" THEN Ret(time, <<>>, g)
    ELSE LET parsed == parse_time(time.str, g)
         IN IF parsed.tag = "raise" THEN parsed
            ELSE Ret(TimeObj(parsed.val), parsed.log, g)

\* get_earth without the line that sets the longitude to 0.
get_earth_keeps_lon(time, g) ==
    LET obstime == astropy_time(time, g)
    IN IF obstime.tag = "raise" THEN obstime
       ELSE LET earth == earth_icrs_to_HGS(obstime.val, g)
            IN IF earth.tag = "raise"
               THEN Raise(earth.exc, obstime.log \o earth.log, g)
               ELSE Ret(SkyCoord(earth.val.lon, earth.val.lat, earth.val.radius,
                                 earth.val.obstime),
                        obstime.log \o earth.log, g)

\* get_earth with the ephemeris failure caught and an origin returned instead.
get_earth_falls_back(time, g) ==
    LET obstime == astropy_time(time, g)
    IN IF obstime.tag = "raise" THEN obstime
       ELSE LET earth == earth_icrs_to_HGS(obstime.val, g)
            IN IF earth.tag = "raise"
               THEN Ret(SkyCoord(0, 0, 0, obstime.val.jd), obstime.log \o earth.log, g)
               ELSE Ret(SkyCoord(0, earth.val.lat, earth.val.radius, earth.val.obstime),
                        obstime.log \o earth.log, g)

\* get_earth(time)
get_earth(time, g) ==
    LET obstime == astropy_time(time, g)
    IN IF obstime.tag = "raise" THEN obstime
       ELSE LET earth == earth_icrs_to_HGS(obstime.val, g)
            IN IF earth.tag = "raise"
               THEN Raise(earth.exc, obstime.log \o earth.log, g)
               ELSE \* Explicitly set the longitude to 0
                    Ret(SkyCoord(0, earth.val.lat, earth.val.radius, earth.val.obstime),
                        obstime.log \o earth.log, g)

\* get_sun_B0(time)
get_sun_B0(time, g) ==
    LET earth == get_earth(time, g)
    IN IF earth.tag = "raise" THEN earth
       ELSE Ret(Angle(earth.val.lat), earth.log, g)

\* sidereal_degrees counted from the origin of the Julian date.
sidereal_degrees_from_origin(obstime, g) ==
    (obstime.jd * 100 * 360 * UnitsPerDeg) \div SiderealPeriodCentidays

\* (obstime.jd - _time_first_rotation.jd) / 25.38 * 360*u.deg, before wrapping
sidereal_degrees(obstime, g) ==
    ((obstime.jd - g.time_first_rotation.jd) * 100 * 360 * UnitsPerDeg)
        \div SiderealPeriodCentidays

\* get_sun_L0 returning the difference as a plain Angle, not a Longitude.
get_sun_L0_unwrapped(time, g) ==
    LET obstime == astropy_time(time, g)
    IN IF obstime.tag = "raise" THEN obstime
       ELSE LET sidereal_lon == Longitude(sidereal_degrees(obstime.val, g))
                earth == get_earth(obstime.val, g)
            IN IF earth.tag = "raise"
               THEN Raise(earth.exc, obstime.log \o earth.log, g)
               ELSE LET lon_obstime == hcrs_detilt_lon(earth.val)
                    IN Ret(lon_obstime - g.lon_first_rotation - sidereal_lon,
                           obstime.log \o earth.log \o <<"hcrs">>, g)

\* get_sun_L0 storing the longitude it computed as the new reference.
get_sun_L0_recalibrates(time, g) ==
    LET obstime == astropy_time(time, g)
    IN IF obstime.tag = "raise" THEN obstime
       ELSE LET sidereal_lon == Longitude(sidereal_degrees(obstime.val, g))
                earth == get_earth(obstime.val, g)
            IN IF earth.tag = "raise"
               THEN Raise(earth.exc, obstime.log \o earth.log, g)
               ELSE LET lon_obstime == hcrs_detilt_lon(earth.val)
                    IN Ret(Longitude(lon_obstime - g.lon_first_rotation - sidereal_lon),
                           obstime.log \o earth.log \o <<"hcrs">>, [g EXCEPT !.lon_first_rotation = lon_obstime])

\* get_sun_L0 adding the sidereal longitude instead of subtracting it.
get_sun_L0_adds_sidereal(time, g) ==
    LET obstime == astropy_time(time, g)
    IN IF obstime.tag = "raise" THEN obstime
       ELSE LET sidereal_lon == Longitude(sidereal_degrees(obstime.val, g))
                earth == get_earth(obstime.val, g)
            IN IF earth.tag = "raise"
               THEN Raise(earth.exc, obstime.log \o earth.log, g)
               ELSE LET lon_obstime == hcrs_detilt_lon(earth.val)
                    IN Ret(Longitude(lon_obstime - g.lon_first_rotation + sidereal_lon),
                           obstime.log \o earth.log \o <<"hcrs">>, g)

\* get_sun_L0(time)
get_sun_L0(time, g) ==
    LET obstime == astropy_time(time, g)
    IN IF obstime.tag = "raise" THEN obstime
       ELSE LET sidereal_lon == Longitude(sidereal_degrees(obstime.val, g))
                earth == get_earth(obstime.val, g)
            IN IF earth.tag = "raise"
               THEN Raise(earth.exc, obstime.log \o earth.log, g)
               ELSE LET lon_obstime == hcrs_detilt_lon(earth.val)
                    IN Ret(Longitude(lon_obstime - g.lon_first_rotation - sidereal_lon),
                           obstime.log \o earth.log \o <<"hcrs">>, g)

\* get_sunearth_distance(time)
get_sunearth_distance(time, g) ==
    LET earth == get_earth(time, g)
    IN IF earth.tag = "raise" THEN earth
       ELSE Ret(earth.val.radius, earth.log, g)

\* The signed angle with z_in_sky left as the cross product gave it.
signed_angle_in_sky_raw_z(sky_normal0, sun_north) ==
    LET sun_north_in_sky0 == Cross(sun_north, sky_normal0)
        z_in_sky0 == Cross(CartesianRepresentation(0, 0, 1), sky_normal0)
        sky_normal == Normalized(sky_normal0)
        sun_north_in_sky == Normalized(sun_north_in_sky0)
        z_in_sky == z_in_sky0
        cos_theta == Dot(sun_north_in_sky, z_in_sky)
        sin_theta == Dot(Cross(sun_north_in_sky, z_in_sky), sky_normal)
    IN Angle(arctan2(sin_theta, cos_theta))

\* The signed angle with sky_normal left at its full length.
signed_angle_in_sky_raw_normal(sky_normal0, sun_north) ==
    LET sun_north_in_sky0 == Cross(sun_north, sky_normal0)
        z_in_sky0 == Cross(CartesianRepresentation(0, 0, 1), sky_normal0)
        sky_normal == sky_normal0
        sun_north_in_sky == Normalized(sun_north_in_sky0)
        z_in_sky == Normalized(z_in_sky0)
        cos_theta == Dot(sun_north_in_sky, z_in_sky)
        sin_theta == Dot(Cross(sun_north_in_sky, z_in_sky), sky_normal)
    IN Angle(arctan2(sin_theta, cos_theta))

\* _sun_north_angle_to_z, from the two transformed vectors on: the cross
\* products, the three normalizations and the signed angle.
signed_angle_in_sky(sky_normal0, sun_north) ==
    LET sun_north_in_sky0 == Cross(sun_north, sky_normal0)
        z_in_sky0 == Cross(CartesianRepresentation(0, 0, 1), sky_normal0)
        sky_normal == Normalized(sky_normal0)
        sun_north_in_sky == Normalized(sun_north_in_sky0)
        z_in_sky == Normalized(z_in_sky0)
        cos_theta == Dot(sun_north_in_sky, z_in_sky)
        sin_theta == Dot(Cross(sun_north_in_sky, z_in_sky), sky_normal)
    IN Angle(arctan2(sin_theta, cos_theta))

\* _sun_north_angle_to_z(frame)
sun_north_angle_to_z(frame, g) ==
    LET center == transform_to("sun_center", frame, g)
    IN IF center.tag = "raise" THEN center
       ELSE LET north == transform_to("sun_north", frame, g)
            IN IF north.tag = "raise"
               THEN Raise(north.exc, center.log \o north.log, g)
               ELSE Ret(signed_angle_in_sky(
                            CartesianRepresentation(center.val[1], center.val[2],
                                                    center.val[3]),
                            CartesianRepresentation(north.val[1], north.val[2],
                                                    north.val[3])),
                        center.log \o north.log, g)

PrecessedGeocentric(obstime) ==
    [kind |-> "PrecessedGeocentric", obstime |-> obstime.jd, location |-> "none"]

AltAz(obstime, location) ==
    [kind |-> "AltAz", obstime |-> obstime.jd, location |-> location]

\* get_sun_P(time)
get_sun_P(time, g) ==
    LET obstime == astropy_time(time, g)
    IN IF obstime.tag = "raise" THEN obstime
       ELSE LET a == sun_north_angle_to_z(PrecessedGeocentric(obstime.val), g)
            IN IF a.tag = "raise" THEN Raise(a.exc, obstime.log \o a.log, g)
               ELSE Ret(a.val, obstime.log \o a.log, g)

\* get_sun_orientation(location, time)
get_sun_orientation(location, time, g) ==
    LET obstime == astropy_time(time, g)
    IN IF obstime.tag = "raise" THEN obstime
       ELSE LET a == sun_north_angle_to_z(AltAz(obstime.val, location), g)
            IN IF a.tag = "raise" THEN Raise(a.exc, obstime.log \o a.log, g)
               ELSE Ret(a.val, obstime.log \o a.log, g)

\* The module body, lines 74-85: the two globals it assigns.
module_body(g) ==
    LET t == TimeObj(EpochJD)
        earth == get_earth(t, g)
    IN [time_first_rotation |-> t,
        lon_first_rotation |-> hcrs_detilt_lon(earth.val)]

---------------------------------------------------------------------------
(* The state machine *)

NoTime == [kind |-> "unset", jd |-> Unset, str |-> ""]
NoCall == [fn |-> "none", location |-> "none", time |-> NoTime,
           out |-> [tag |-> "none", val |-> NoVal, exc |-> "", log |-> <<>>,
                    g |-> [time_first_rotation |-> NoTime,
                           lon_first_rotation |-> Unset]]]
NoGeom == [sky |-> <<0, 0, 0>>, north |-> <<0, 0, 0>>]
NoAngle == [nan |-> FALSE, sy |-> 0, sx |-> 0, ry |-> 0, rx |-> 0]

\* Ephemerides in which the two samples alternate from instant to instant.
Alternating ==
    {[j \in EphemJDs |-> IF ((j \div DayStep) + k) % 2 = 0 THEN SampleA ELSE SampleB] :
        k \in 0..1}

InitWith(E) ==
    /\ pc = "import"
    /\ ephem \in E
    /\ clock = 2 * DayStep
    /\ time_first_rotation = NoTime
    /\ lon_first_rotation = Unset
    /\ last = NoCall
    /\ prev = NoCall
    /\ geom = NoGeom
    /\ angle = NoAngle

Init == InitWith([EphemJDs -> Samples])

\* Importing the module runs its body once.
ModuleInit ==
    /\ pc = "import"
    /\ pc' = "ready"
    /\ time_first_rotation' = module_body(Globals).time_first_rotation
    /\ lon_first_rotation' = module_body(Globals).lon_first_rotation
    /\ UNCHANGED <<ephem, clock, last, prev, geom, angle>>

\* Time passes.
Tick ==
    /\ clock < MaxJD * DayStep
    /\ clock' = clock + DayStep
    /\ UNCHANGED <<pc, ephem, time_first_rotation, lon_first_rotation, last, prev,
                   geom, angle>>

\* A public call: its outcome is recorded and the module namespace is what
\* the call left.  With rec, the first call made is also kept in prev.
Call(fn, location, time, out, rec) ==
    /\ pc = "ready"
    /\ last' = [fn |-> fn, location |-> location, time |-> time, out |-> out]
    /\ time_first_rotation' = out.g.time_first_rotation
    /\ lon_first_rotation' = out.g.lon_first_rotation
    /\ prev' = IF rec /\ prev.fn = "none" THEN last' ELSE prev
    /\ UNCHANGED <<pc, ephem, clock, geom, angle>>

Call_get_earth(rec) ==
    \E time \in TimeArgs : Call("get_earth", "none", time, get_earth(time, Globals), rec)

Call_get_sun_B0(rec) ==
    \E time \in TimeArgs : Call("get_sun_B0", "none", time, get_sun_B0(time, Globals), rec)

Call_get_sun_L0(rec) ==
    \E time \in TimeArgs : Call("get_sun_L0", "none", time, get_sun_L0(time, Globals), rec)

Call_get_sun_P(rec) ==
    \E time \in TimeArgs : Call("get_sun_P", "none", time, get_sun_P(time, Globals), rec)

Call_get_sunearth_distance(rec) ==
    \E time \in TimeArgs :
        Call("get_sunearth_distance", "none", time,
             get_sunearth_distance(time, Globals), rec)

Call_get_sun_orientation(rec) ==
    \E location \in Locations, time \in TimeArgs :
        Call("get_sun_orientation", location, time,
             get_sun_orientation(location, time, Globals), rec)

Step(rec) ==
    \/ ModuleInit
    \/ Tick
    \/ Call_get_earth(rec)
    \/ Call_get_sun_B0(rec)
    \/ Call_get_sun_L0(rec)
    \/ Call_get_sun_P(rec)
    \/ Call_get_sunearth_distance(rec)
    \/ Call_get_sun_orientation(rec)

Next == Step(FALSE)

Spec == Init /\ [][Next]_vars

\* The same machine with the first call kept, over alternating ephemerides.
InitIdem == InitWith(Alternating)

NextIdem == Step(TRUE)

SpecIdem == InitIdem /\ [][NextIdem]_vars

---------------------------------------------------------------------------
(* The signed-angle computation on its own, over every pair of a line of   *)
(* sight and a non-zero solar north direction.                             *)

Coords == (0 - MaxCoord)..MaxCoord

AllVecs == {<<x, y, z>> : x \in Coords, y \in Coords, z \in Coords}

Vecs == AllVecs \ {<<0, 0, 0>>}

\* sky: the Sun centre as seen in the frame; north: the point on the solar
\* north axis, which is the Sun centre displaced along the axis.
Geometries == {[sky |-> s, north |-> VecAdd(s, d)] : s \in AllVecs, d \in Vecs}

InitAngle ==
    /\ pc = "import"
    /\ ephem = [j \in EphemJDs |-> SampleA]
    /\ clock = 2 * DayStep
    /\ time_first_rotation = NoTime
    /\ lon_first_rotation = Unset
    /\ last = NoCall
    /\ prev = NoCall
    /\ geom \in Geometries
    /\ angle = NoAngle

Apply_signed_angle ==
    /\ angle = NoAngle
    /\ angle' = signed_angle_in_sky(
                    CartesianRepresentation(geom.sky[1], geom.sky[2], geom.sky[3]),
                    CartesianRepresentation(geom.north[1], geom.north[2], geom.north[3]))
    /\ UNCHANGED <<pc, ephem, clock, time_first_rotation, lon_first_rotation, last,
                   prev, geom>>

NextAngle == Apply_signed_angle

SpecAngle == InitAngle /\ [][NextAngle]_vars

---------------------------------------------------------------------------
(* Properties *)

Ok(c, fn) == c.fn = fn /\ c.out.tag = "ok"

Unparseable(time) == time.kind = "str" /\ time.str \notin {"now", EPOCH_STRING}

\* The instant a parseable time argument stands for while the clock shows now.
InstantOf(time, now) ==
    IF time.kind = "Time" THEN time.jd
    ELSE IF time.str = "now" THEN now
    ELSE EpochJD

\* Degrees of sidereal rotation since the reference epoch, in angle units.
SiderealSince(jd) == ((jd - EpochJD) * 36000 * UnitsPerDeg) \div 2538

\* Earth longitude at jd in the solar-axis-aligned frame minus the stored
\* reference longitude.
Geometric(jd) == ephem[jd].helio - lon_first_rotation

\* C1: every sky position get_earth returns has heliographic longitude
\* exactly 0, whatever longitude the ephemeris and the transformation gave.
C1_EarthLongitudeZero == Ok(last, "get_earth") => last.out.val.lon = 0

C1_Witness ==
    /\ Ok(last, "get_earth")
    /\ last.time.kind = "Time"
    /\ ephem[last.time.jd].rawlon # 0

\* C2: every value get_sun_L0 returns lies in [0, 360) degrees.
C2_L0InRange ==
    Ok(last, "get_sun_L0") => (0 <= last.out.val /\ last.out.val < Full)

C2_Witness ==
    /\ Ok(last, "get_sun_L0")
    /\ last.time.kind = "Time"
    /\ Geometric(last.time.jd) - SiderealSince(last.time.jd) < 0

\* C3: once the module body has run, the calibration epoch and the reference
\* longitude are the values the body computed, and no later step changes them.
C3_CalibrationFrozen ==
    [][/\ pc' = "ready" =>
            /\ time_first_rotation' = TimeObj(EpochJD)
            /\ lon_first_rotation' = ephem[EpochJD].helio
       /\ pc = "ready" =>
            /\ time_first_rotation' = time_first_rotation
            /\ lon_first_rotation' = lon_first_rotation]_vars

C3_Witness ==
    /\ pc = "ready"
    /\ Ok(last, "get_sun_L0")
    /\ last.time.kind = "Time"
    /\ last.time.jd # EpochJD
    /\ lon_first_rotation = ephem[EpochJD].helio

SameCall ==
    /\ prev.fn # "none"
    /\ last.fn = prev.fn
    /\ last.location = prev.location
    /\ last.time = prev.time

SameResult ==
    /\ last.out.tag = prev.out.tag
    /\ last.out.exc = prev.out.exc
    /\ last.out.val = prev.out.val

\* C4 as claimed: a call with the arguments of the first call has the result
\* of the first call, whatever the time argument is.
C4_Idempotent == SameCall => SameResult

\* C4: a call with the arguments of the first call has the result of the
\* first call, whatever was called in between, provided the time argument is
\* not the 'now' sentinel.
C4_IdempotentFixedInstant ==
    (SameCall /\ last.time # TimeStr("now")) => SameResult

C4_Witness ==
    /\ SameCall
    /\ last.time = TimeStr(EPOCH_STRING)
    /\ Ok(last, "get_sun_L0")
    /\ clock > 2 * DayStep

\* C5: get_sun_L0 at the calibration epoch returns 0 degrees.
C5_L0ZeroAtEpoch ==
    (last.fn = "get_sun_L0" /\ last.time \in {TimeStr(EPOCH_STRING), TimeObj(EpochJD)})
        => (last.out.tag = "ok" /\ last.out.val = 0)

C5_Witness ==
    /\ Ok(last, "get_sun_L0")
    /\ last.time = TimeStr(EPOCH_STRING)
    /\ lon_first_rotation > 0
    /\ last.out.val = 0

\* The collaborator whose failure ended the call was invoked once.
FailedOnce(log) ==
    /\ Len(log) >= 1
    /\ Cardinality({i \in 1..Len(log) : log[i] = log[Len(log)]}) = 1

\* C6: a public call raises exactly when the time does not parse or the
\* ephemeris does not cover it; it then raises the collaborator's error,
\* returns no value, has invoked the failing collaborator once and nothing
\* after it, and leaves the calibration as it was.
C6_ErrorsSurface ==
    [][(pc = "ready" /\ clock' = clock /\ last'.fn # "none") =>
        LET c == last'
            covered == InstantOf(c.time, clock) \in EphemJDs
        IN /\ (c.out.tag = "raise") <=> (Unparseable(c.time) \/ ~covered)
           /\ c.out.tag = "raise" =>
                /\ c.out.val = NoVal
                /\ c.out.exc = IF Unparseable(c.time) THEN "ValueError"
                               ELSE "EphemerisError"
                /\ FailedOnce(c.out.log)
                /\ c.out.log[Len(c.out.log)] =
                       IF Unparseable(c.time) THEN "parse_time"
                       ELSE IF c.fn \in {"get_sun_P", "get_sun_orientation"}
                            THEN "transform_to"
                            ELSE "get_body_barycentric"
                /\ time_first_rotation' = time_first_rotation
                /\ lon_first_rotation' = lon_first_rotation]_vars

C6_Witness ==
    /\ last.fn = "get_sun_L0"
    /\ last.out.tag = "raise"
    /\ last.out.exc = "ValueError"
    /\ lon_first_rotation = ephem[EpochJD].helio

\* C7: get_sun_L0 returns the geometric component minus the sidereal
\* component wrapped to [0, 360), the sidereal component being the days
\* since the epoch / 25.38 * 360 degrees wrapped to [0, 360); wrapping the
\* sidereal component first gives what wrapping only the difference gives.
C7_L0Formula ==
    [][(pc = "ready" /\ clock' = clock /\ Ok(last', "get_sun_L0")) =>
        LET jd == InstantOf(last'.time, clock)
        IN /\ last'.out.val = (Geometric(jd) - (SiderealSince(jd) % Full)) % Full
           /\ last'.out.val = (Geometric(jd) - SiderealSince(jd)) % Full]_vars

C7_Witness ==
    /\ Ok(last, "get_sun_L0")
    /\ last.time.kind = "Time"
    /\ SiderealSince(last.time.jd) >= Full
    /\ last.out.val # 0

\* Solar north lies along the line of sight (a line of sight of zero length
\* lies along every direction).
NorthAlongSight == Cross3(geom.north, geom.sky) = <<0, 0, 0>>

\* The frame's Z axis lies along the line of sight.
ZAlongSight == Cross3(<<0, 0, 1>>, geom.sky) = <<0, 0, 0>>

\* C8 as claimed: the normalization fails only when solar north lies along
\* the line of sight; for every other geometry an angle is returned.
C8_FailsOnlyNorthAligned ==
    angle # NoAngle => (angle.nan <=> NorthAlongSight)

\* C8: the normalization fails exactly when solar north or the frame's Z
\* axis lies along the line of sight; for every other geometry the three
\* vectors have non-zero length and an angle is returned.
C8_FailsWhenNorthOrZAligned ==
    angle # NoAngle => (angle.nan <=> (NorthAlongSight \/ ZAlongSight))

C8_Witness ==
    /\ angle # NoAngle
    /\ angle.nan
    /\ ZAlongSight
    /\ ~NorthAlongSight

\* The orthogonal projection of v onto the plane perpendicular to s, times s.s
Projected(v, s) ==
    <<Dot3(s, s) * v[1] - Dot3(v, s) * s[1],
      Dot3(s, s) * v[2] - Dot3(v, s) * s[2],
      Dot3(s, s) * v[3] - Dot3(v, s) * s[3]>>

\* The signed angle about geom.sky from the projection of solar north to the
\* projection of Z: cosine n.z / (|n| |z|), sine (n x z).s / (|n| |z| |s|).
ProjectedAngle ==
    LET n == Projected(geom.north, geom.sky)
        z == Projected(<<0, 0, 1>>, geom.sky)
        c == Dot3(n, z)
        sn == Dot3(Cross3(n, z), geom.sky)
    IN AngleOf(Sgn(sn), Sgn(c), sn * sn, c * c * Dot3(geom.sky, geom.sky))

\* Bounds in degrees of the quadrant or axis the angle lies in.
AngleInf(a) ==
    IF a.sy = 0 THEN (IF a.sx > 0 THEN 0 ELSE 180)
    ELSE IF a.sy > 0 THEN (IF a.sx > 0 THEN 0 ELSE 90)
    ELSE (IF a.sx < 0 THEN 0 - 180 ELSE 0 - 90)

AngleSup(a) ==
    IF a.sy = 0 THEN (IF a.sx > 0 THEN 0 ELSE 180)
    ELSE IF a.sy > 0 THEN (IF a.sx >= 0 THEN 90 ELSE 180)
    ELSE (IF a.sx <= 0 THEN 0 - 90 ELSE 0)

\* C9: for every non-degenerate geometry the helper's angle is the signed
\* angle about sky_normal between the orthogonal projections of solar north
\* and of Z, and lies in (-180, 180] degrees.
C9_AngleIsProjectedAngle ==
    (angle # NoAngle /\ ~NorthAlongSight /\ ~ZAlongSight) =>
        /\ ~angle.nan
        /\ angle = ProjectedAngle
        /\ AngleSup(angle) <= 180
        /\ (AngleInf(angle) > 0 - 180 \/ AngleInf(angle) < AngleSup(angle))

C9_Witness ==
    /\ angle # NoAngle
    /\ ~angle.nan
    /\ angle.sy < 0
    /\ angle.sx < 0
    /\ Dot3(geom.sky, geom.sky) > 1
    /\ Dot3(geom.north, geom.sky) # 0

====
